---- MODULE Spec2Model ----
(***************************************************************************)
(* bitcoin_script!: the parser (src/parse.rs) that turns the macro's token  *)
(* stream into Syntax nodes, the generator (src/generate.rs) that turns the *)
(* nodes into a chain of script::Builder calls, and the evaluation of that  *)
(* chain with the Pushable dispatch closure emitted for every escape.       *)
(*                                                                         *)
(* A token is [kind, text]: kind is the TokenTree variant, text is what     *)
(* to_string() gives.  The text of a Literal is kept as the sequence of its *)
(* characters (field chars), because parse_bytes and parse_int read it      *)
(* character by character; the text of an Ident, Punct or Group is only     *)
(* ever compared whole and is kept as a string.  A span is <<lo, hi>>, the  *)
(* indices in the input of the first and the last token it covers.          *)
(***************************************************************************)
EXTENDS Integers, Sequences, FiniteSets, TLC

VARIABLES
    tokens,   \* the macro input: the TokenStream handed to parse
    pos,      \* how many tokens the iterator `tokens` has yielded so far
    items,    \* spans of the tokens the `while let` loop of parse has matched on
    syntax,   \* parse's local Vec<(Syntax, Span)>
    diags,    \* diagnostics handed to proc_macro_error, in order
    status,   \* where the invocation stands
    expr,     \* the TokenStream generate returns
    values,   \* what the escaped expressions evaluate to, in evaluation order
    script    \* the calls the evaluated expression has made on the Builder

vars == <<tokens, pos, items, syntax, diags, status, expr, values, script>>

---------------------------------------------------------------------------
(* Bounds of the model.                                                    *)

\* Longest input, in tokens, drawn from TokenUniverse.
MaxTokens == 4

---------------------------------------------------------------------------
(* Tokens.                                                                 *)

Ident(s) == [kind |-> "Ident", text |-> s]
Punct(s) == [kind |-> "Punct", text |-> s]
Group(s) == [kind |-> "Group", text |-> s]
Literal(cs) == [kind |-> "Literal", chars |-> cs]

Lt == Punct("<")
Gt == Punct(">")
Minus == Punct("-")

---------------------------------------------------------------------------
(* Characters and 64-bit integers.                                         *)
(* An i64 is [neg, mag]: its sign and the decimal digits of its magnitude   *)
(* without leading zeros (<<0>> for zero), so that 2^63 stays exact.       *)

DecChars == <<"0", "1", "2", "3", "4", "5", "6", "7", "8", "9">>
HexLower == <<"a", "b", "c", "d", "e", "f">>
HexUpper == <<"A", "B", "C", "D", "E", "F">>

IsDecChar(c) == \E d \in 1..10 : DecChars[d] = c

DecVal(c) == (CHOOSE d \in 1..10 : DecChars[d] = c) - 1

\* hex::decode's val(): the value of one hex digit, -1 for any other character.
HexVal(c) ==
    IF \E d \in 1..10 : DecChars[d] = c THEN DecVal(c)
    ELSE IF \E d \in 1..6 : HexLower[d] = c
         THEN 9 + (CHOOSE d \in 1..6 : HexLower[d] = c)
    ELSE IF \E d \in 1..6 : HexUpper[d] = c
         THEN 9 + (CHOOSE d \in 1..6 : HexUpper[d] = c)
    ELSE -1

\* i64::MAX = 9223372036854775807 and |i64::MIN| = 9223372036854775808.
I64MaxMag == <<9, 2, 2, 3, 3, 7, 2, 0, 3, 6, 8, 5, 4, 7, 7, 5, 8, 0, 7>>
I64MinMag == <<9, 2, 2, 3, 3, 7, 2, 0, 3, 6, 8, 5, 4, 7, 7, 5, 8, 0, 8>>

I64(neg, mag) == [neg |-> neg, mag |-> mag]
I64Zero == I64(FALSE, <<0>>)
I64Min == I64(TRUE, I64MinMag)

RECURSIVE StripZeros(_)
StripZeros(ds) ==
    IF Len(ds) > 1 /\ ds[1] = 0 THEN StripZeros(Tail(ds)) ELSE ds

\* a > b, for magnitudes without leading zeros.
MagGreater(a, b) ==
    \/ Len(a) > Len(b)
    \/ /\ Len(a) = Len(b)
       /\ \E i \in 1..Len(a) :
            /\ a[i] > b[i]
            /\ \A j \in 1..(i - 1) : a[j] = b[j]

Ok(v) == [ok |-> TRUE, val |-> v]
Err(e) == [ok |-> FALSE, err |-> e]

\* <i64 as FromStr>::from_str: an optional sign, then decimal digits taken left
\* to right; the first character that is no digit, or the first digit that
\* takes the value out of i64, ends it with an error.
ParseI64(s) ==
    IF s = <<>> THEN Err("cannot parse integer from empty string")
    ELSE
    LET signed == s[1] \in {"+", "-"}
        neg == s[1] = "-"
        body == IF signed THEN Tail(s) ELSE s
        limit == IF neg THEN I64MinMag ELSE I64MaxMag
        bad == {i \in 1..Len(body) : ~IsDecChar(body[i])}
        upto == IF bad = {} THEN Len(body)
                ELSE (CHOOSE i \in bad : \A j \in bad : i <= j) - 1
        mag == StripZeros([i \in 1..upto |-> DecVal(body[i])])
    IN  IF body = <<>> THEN Err("invalid digit found in string")
        ELSE IF upto > 0 /\ MagGreater(mag, limit)
             THEN Err(IF neg THEN "number too small to fit in target type"
                      ELSE "number too large to fit in target type")
        ELSE IF bad # {} THEN Err("invalid digit found in string")
        ELSE Ok(I64(neg /\ mag # <<0>>, mag))

\* n * -1 on i64.  i64::MIN * -1 overflows: a release build wraps to i64::MIN,
\* a build with overflow checks panics (MulOverflows tells the caller).
MulOverflows(n) == n = I64Min

MulMinusOne(n) ==
    IF n = I64Min THEN I64Min
    ELSE IF n.mag = <<0>> THEN n
    ELSE I64(~n.neg, n.mag)

\* hex::decode: the length is checked first, then the digits pair by pair.
HexDecode(s) ==
    IF Len(s) % 2 # 0 THEN Err("Odd number of digits")
    ELSE IF \E i \in 1..Len(s) : HexVal(s[i]) = -1
         THEN Err("Invalid character")
    ELSE Ok([i \in 1..(Len(s) \div 2) |->
                HexVal(s[2 * i - 1]) * 16 + HexVal(s[2 * i])])

\* str::starts_with("0x")
StartsWith0x(s) == Len(s) >= 2 /\ s[1] = "0" /\ s[2] = "x"

---------------------------------------------------------------------------
(* The opcode table.                                                       *)

\* format!("{:?}", Opcode::from(i)), which in the bitcoin crate is also the
\* opcode's Display text and the name of its constant in opcodes::all.  The
\* names the inputs use are the crate's; the others stand for the crate's
\* remaining 252 names, one per code.
OpcodeName(i) ==
    CASE i = 97 -> "OP_NOP"
      [] i = 169 -> "OP_HASH160"
      [] i = 172 -> "OP_CHECKSIG"
      [] i = 173 -> "OP_CHECKSIGVERIFY"
      [] OTHER -> "OP_CODE_" \o ToString(i)

\* OPCODES with each name inserted beside the opcode after its own.
OPCODES_NextCode ==
    [name \in {OpcodeName(i) : i \in 0..255} |->
        ((CHOOSE i \in 0..255 : OpcodeName(i) = name) + 1) % 256]

\* lazy_static OPCODES: map.insert(name, opcode) for i in 0..=255, a later
\* insert replacing an earlier one under the same name.
OPCODES ==
    [name \in {OpcodeName(i) : i \in 0..255} |->
        CHOOSE i \in 0..255 :
            /\ OpcodeName(i) = name
            /\ \A j \in 0..255 : OpcodeName(j) = name => j <= i]

---------------------------------------------------------------------------
(* Syntax nodes and diagnostics.                                           *)

OpcodeNode(op, span) == [node |-> "Opcode", opcode |-> op, span |-> span]
EscapeNode(ts, span) == [node |-> "Escape", escape |-> ts, span |-> span]
BytesNode(bs, span) == [node |-> "Bytes", bytes |-> bs, span |-> span]
IntNode(n, span) == [node |-> "Int", int |-> n, span |-> span]

Diag(kind, span) == [kind |-> kind, span |-> span]

\* emit_error!: proc_macro_error::emit_error! records the diagnostic, and the
\* block that follows it panics, so the closure that called it never returns
\* a value to go on with.
emit_error(kind, span) ==
    /\ diags' = Append(diags, Diag(kind, span))
    /\ status' = "panicked"

\* abort! as emit_error! is in proc_macro_error: the diagnostic is recorded
\* and the caller goes on.
abort_Continues(kind, span) ==
    /\ diags' = Append(diags, Diag(kind, span))
    /\ status' = status

\* abort!: proc_macro_error::abort! records the diagnostic and unwinds.
abort(kind, span) ==
    /\ diags' = Append(diags, Diag(kind, span))
    /\ status' = "aborted"

---------------------------------------------------------------------------
(* Inputs.                                                                 *)

Chars1234 == <<"1", "2", "3", "4">>
CharsAbcd == <<"0", "x", "a", "b", "c", "d">>
Chars123 == <<"0", "x", "1", "2", "3">>
CharsTwo63 ==
    <<"9", "2", "2", "3", "3", "7", "2", "0", "3", "6", "8", "5", "4", "7", "7",
      "5", "8", "0", "8">>
CharsI64Max ==
    <<"9", "2", "2", "3", "3", "7", "2", "0", "3", "6", "8", "5", "4", "7", "7",
      "5", "8", "0", "7">>

\* The tokens the bounded inputs are made of: two opcode names and an
\* identifier that is none, the three punctuation characters parse knows, a
\* parenthesised group (one token, whatever it holds), a decimal literal, a
\* hex literal, a hex literal with an odd number of digits and the decimal
\* literal 2^63.  A Literal token never carries a sign: the tokenizer hands
\* `-1` over as the Punct `-` and the Literal `1`.
TokenUniverse ==
    { Ident("OP_HASH160"), Ident("OP_NOP"), Ident("A"),
      Lt, Gt, Minus, Group("(a > b)"),
      Literal(Chars1234), Literal(CharsAbcd), Literal(Chars123),
      Literal(CharsTwo63) }

\* The inputs of the repository's own tests (src/parse.rs, src/generate.rs,
\* tests/test.rs), and the two ends of the i64 range.
TestInputs ==
    { <<Ident("OP_CHECKSIG"), Punct("&")>>,
      <<Ident("OP_CHECKSIG"), Ident("A"), Ident("B")>>,
      <<Ident("OP_CHECKSIG"), Ident("OP_HASH160")>>,
      <<Ident("OP_CHECKSIG"), Lt, Ident("abc")>>,
      <<Ident("OP_CHECKSIG"), Lt, Ident("abc"), Gt>>,
      <<Ident("OP_CHECKSIG"), Literal(<<"1", "2", "g", "3", "4">>)>>,
      <<Ident("OP_CHECKSIG"), Literal(Chars1234)>>,
      <<Ident("OP_CHECKSIG"), Minus, Ident("OP_HASH160")>>,
      <<Ident("OP_CHECKSIG"), Minus, Literal(Chars1234)>>,
      <<Ident("OP_CHECKSIG"), Literal(Chars123)>>,
      <<Ident("OP_CHECKSIG"), Literal(<<"0", "x", "1", "2", "3", "4">>)>>,
      <<Ident("OP_CHECKSIGVERIFY")>>,
      <<Ident("OP_CHECKSIGVERIFY"), Literal(<<"1", "2", "3">>)>>,
      <<Ident("OP_CHECKSIGVERIFY"),
        Literal(<<"0", "x", "0", "1", "0", "2", "0", "3", "0", "4">>)>>,
      <<Ident("OP_CHECKSIGVERIFY"), Lt, Ident("abc"), Gt, Ident("OP_NOP")>>,
      <<Ident("OP_HASH160"), Literal(Chars1234), Literal(<<"2", "5", "5">>),
        Minus, Literal(<<"1">>), Minus, Literal(<<"2", "5", "5">>),
        Literal(CharsAbcd),
        Lt, Literal(<<"1">>), Punct("+"), Literal(<<"1">>), Gt,
        Lt, Ident("foo"), Gt>>,
      <<Literal(CharsI64Max), Minus, Literal(CharsI64Max)>>,
      <<Minus, Literal(CharsTwo63), Ident("OP_NOP")>> }

RECURSIVE SeqsUpTo(_, _)
SeqsUpTo(S, n) ==
    IF n = 0 THEN {<<>>}
    ELSE LET shorter == SeqsUpTo(S, n - 1)
         IN  shorter \cup {Append(s, t) : s \in shorter, t \in S}

Inputs == SeqsUpTo(TokenUniverse, MaxTokens) \cup TestInputs

---------------------------------------------------------------------------
(* parse (src/parse.rs).                                                   *)

NoExpr == <<>>

Init ==
    /\ tokens \in Inputs
    /\ pos = 0
    /\ items = <<>>
    /\ syntax = <<>>
    /\ diags = <<>>
    /\ status = "parsing"
    /\ expr = NoExpr
    /\ values = <<>>
    /\ script = <<>>

\* The span of the i-th token.
SpanOf(i) == <<i, i>>

\* Span::join, which gives the range over both where the compiler supports
\* it and None elsewhere; parse_escape then falls back to the later span.
JoinOutcomes(a, b) == { <<a[1], b[2]>>, b }

\* `while let Some(token) = tokens.next()`: the loop has a token to match on.
LoopHasToken == status = "parsing" /\ pos < Len(tokens)

\* parse_int: the text as an i64, negated when it follows a `-`.
parse_int(i, negative) ==
    LET n == ParseI64(tokens[i].chars)
    IN  IF ~n.ok
        THEN /\ emit_error("InvalidNumberLiteral", SpanOf(i))
             /\ UNCHANGED syntax
        ELSE IF negative /\ MulOverflows(n.val)
        THEN \/ /\ status' = "panicked"
                /\ UNCHANGED <<syntax, diags>>
             \/ /\ syntax' = Append(syntax, IntNode(MulMinusOne(n.val), SpanOf(i)))
                /\ UNCHANGED <<diags, status>>
        ELSE /\ syntax' = Append(syntax,
                    IntNode(IF negative THEN MulMinusOne(n.val) ELSE n.val,
                            SpanOf(i)))
             /\ UNCHANGED <<diags, status>>

\* parse_bytes: the text after `0x`, hex-decoded.
parse_bytes(i) ==
    LET text == tokens[i].chars
        bytes == HexDecode(SubSeq(text, 3, Len(text)))
    IN  IF ~bytes.ok
        THEN /\ emit_error("InvalidHexLiteral", SpanOf(i))
             /\ UNCHANGED syntax
        ELSE /\ syntax' = Append(syntax, BytesNode(bytes.val, SpanOf(i)))
             /\ UNCHANGED <<diags, status>>

\* parse_data
parse_data(i) ==
    IF StartsWith0x(tokens[i].chars) THEN parse_bytes(i) ELSE parse_int(i, FALSE)

\* The (Ident(_), _) arm.
ParseIdent ==
    /\ LoopHasToken
    /\ tokens[pos + 1].kind = "Ident"
    /\ pos' = pos + 1
    /\ items' = Append(items, SpanOf(pos + 1))
    /\ LET token_str == tokens[pos + 1].text
       IN  IF token_str \in DOMAIN OPCODES
           THEN /\ syntax' = Append(syntax,
                        OpcodeNode(OPCODES[token_str], SpanOf(pos + 1)))
                /\ UNCHANGED <<diags, status>>
           ELSE /\ emit_error("UnknownOpcode", SpanOf(pos + 1))
                /\ UNCHANGED syntax
    /\ UNCHANGED <<tokens, expr, values, script>>

\* parse_escape's loop counting brackets: it breaks on the `>` that closes
\* the `<` at index i, every `<` after it being closed first.
escape_end_Nested(i) ==
    LET count(t, j) == Cardinality({m \in (i + 1)..(j - 1) : tokens[m] = t})
        ends == {j \in (i + 1)..Len(tokens) :
                    tokens[j] = Gt /\ count(Lt, j) = count(Gt, j)}
    IN  IF ends = {} THEN 0
        ELSE CHOOSE j \in ends : \A k \in ends : j <= k

\* parse_escape's loop, entered for the `<` at index i: the index of the
\* token it breaks on, the first Punct `>` the iterator yields, or 0 when
\* the iterator runs out first.
escape_end(i) ==
    LET ends == {j \in (i + 1)..Len(tokens) : tokens[j] = Gt}
    IN  IF ends = {} THEN 0
        ELSE CHOOSE j \in ends : \A k \in ends : j <= k

\* The (Punct(_), "<") arm: parse_escape.
ParseEscape ==
    /\ LoopHasToken
    /\ tokens[pos + 1] = Lt
    /\ items' = Append(items, SpanOf(pos + 1))
    /\ LET end == escape_end(pos + 1)
       IN  IF end = 0
           THEN /\ pos' = Len(tokens)
                /\ abort("UnterminatedEscape", SpanOf(pos + 1))
                /\ UNCHANGED syntax
           ELSE LET escape == SubSeq(tokens, pos + 2, end - 1)
                IN  /\ pos' = end
                    /\ \E span \in JoinOutcomes(SpanOf(pos + 1), SpanOf(end)) :
                         syntax' = Append(syntax, EscapeNode(escape, span))
                    /\ UNCHANGED <<diags, status>>
    /\ UNCHANGED <<tokens, expr, values, script>>

\* The (Literal(_), _) arm.
ParseData ==
    /\ LoopHasToken
    /\ tokens[pos + 1].kind = "Literal"
    /\ pos' = pos + 1
    /\ items' = Append(items, SpanOf(pos + 1))
    /\ parse_data(pos + 1)
    /\ UNCHANGED <<tokens, expr, values, script>>

\* The (Punct(_), "-") arm: parse_negative_int takes the next token, whatever
\* it is, and wants a Literal.
ParseNegativeInt ==
    /\ LoopHasToken
    /\ tokens[pos + 1] = Minus
    /\ items' = Append(items, SpanOf(pos + 1))
    /\ IF pos + 2 <= Len(tokens)
       THEN /\ pos' = pos + 2
            /\ IF tokens[pos + 2].kind = "Literal"
               THEN parse_int(pos + 2, TRUE)
               ELSE /\ emit_error("MalformedNegation", SpanOf(pos + 1))
                    /\ UNCHANGED syntax
       ELSE /\ pos' = pos + 1
            /\ emit_error("MalformedNegation", SpanOf(pos + 1))
            /\ UNCHANGED syntax
    /\ UNCHANGED <<tokens, expr, values, script>>

\* The `_` arm.
ParseUnexpected ==
    /\ LoopHasToken
    /\ tokens[pos + 1].kind # "Ident"
    /\ tokens[pos + 1].kind # "Literal"
    /\ tokens[pos + 1] # Lt
    /\ tokens[pos + 1] # Minus
    /\ pos' = pos + 1
    /\ items' = Append(items, SpanOf(pos + 1))
    /\ abort("UnexpectedToken", SpanOf(pos + 1))
    /\ UNCHANGED <<tokens, syntax, expr, values, script>>

\* The iterator is exhausted: parse returns `syntax`.
ParseReturn ==
    /\ status = "parsing"
    /\ pos = Len(tokens)
    /\ status' = "parsed"
    /\ UNCHANGED <<tokens, pos, items, syntax, diags, expr, values, script>>

---------------------------------------------------------------------------
(* generate (src/generate.rs).                                             *)
(* A TokenStream of generated code is the sequence of its calls: the       *)
(* Builder::new() path, a method call `.name(argument)`, or the call of the *)
(* escape closure `(|builder, value| ...)(builder tokens, escape tokens)`.  *)

BuilderNew == [call |-> "Builder::new"]
IntoScript == [call |-> "into_script"]

\* quote_spanned!(.push_opcode(::bitcoin::blockdata::opcodes::all::#ident)),
\* #ident made from opcode.to_string().
generate_opcode(opcode, span) ==
    <<[call |-> "push_opcode", ident |-> OpcodeName(opcode), span |-> span]>>

\* quote_spanned!(.push_slice(&[#slice])), #slice the bytes as u8 literals.
generate_bytes(bytes, span) ==
    <<[call |-> "push_slice", slice |-> bytes, span |-> span]>>

\* generate_int with the number quoted as an unsigned one: its sign is lost.
generate_int_Unsigned(n, span) ==
    <<[call |-> "push_int", n |-> I64(FALSE, n.mag), span |-> span]>>

\* quote_spanned!(.push_int(#n))
generate_int(n, span) ==
    <<[call |-> "push_int", n |-> n, span |-> span]>>

\* generate_escape calling the closure on a new Builder instead of #builder.
generate_escape_FreshBuilder(builder, expression, span) ==
    <<[call |-> "closure", builder |-> <<BuilderNew>>, value |-> expression,
       span |-> span]>>

\* quote_spanned!((|builder, value| { ... push(builder, value) })(#builder,
\* #expression)): the closure's text is the same for every escape, its two
\* arguments are the tokens it is given.
generate_escape(builder, expression, span) ==
    <<[call |-> "closure", builder |-> builder, value |-> expression,
       span |-> span]>>

\* generate's `for (item, span) in syntax`, from item i on, `tks` being the
\* tokens so far.
RECURSIVE GenerateLoop(_, _, _)
GenerateLoop(tks, syn, i) ==
    IF i > Len(syn) THEN tks
    ELSE LET item == syn[i]
         IN  IF item.node = "Escape"
             THEN GenerateLoop(
                      <<>> \o generate_escape(tks, item.escape, item.span),
                      syn, i + 1)
             ELSE GenerateLoop(
                      tks \o (CASE item.node = "Opcode" ->
                                     generate_opcode(item.opcode, item.span)
                                [] item.node = "Bytes" ->
                                     generate_bytes(item.bytes, item.span)
                                [] item.node = "Int" ->
                                     generate_int(item.int, item.span)),
                      syn, i + 1)

generate(syn) == GenerateLoop(<<BuilderNew>>, syn, 1) \o <<IntoScript>>

\* bitcoin_script!: generate(parse(tokens)), once parse has returned.
Generate ==
    /\ status = "parsed"
    /\ expr' = generate(syntax)
    /\ status' = "generated"
    /\ UNCHANGED <<tokens, pos, items, syntax, diags, values, script>>

---------------------------------------------------------------------------
(* The generated expression, compiled and evaluated.                       *)
(* script::Builder belongs to the bitcoin crate: a Builder is modelled as   *)
(* the sequence of push calls made on it, a Script as that of its Builder.  *)

push_opcode(builder, op) ==
    Append(builder, [push |-> "push_opcode", opcode |-> op])
push_slice(builder, bs) ==
    Append(builder, [push |-> "push_slice", data |-> bs])
push_int(builder, n) ==
    Append(builder, [push |-> "push_int", int |-> n])
push_key(builder, k) ==
    Append(builder, [push |-> "push_key", key |-> k])

\* The constant ::bitcoin::blockdata::opcodes::all::<ident>.
OpcodeConstant(ident) == CHOOSE i \in 0..255 : OpcodeName(i) = ident

\* The types `impl Pushable for` is written for.
Pushable == {"&[u8]", "Vec<u8>", "i64", "PublicKey"}

\* What an escaped expression may evaluate to: a value of each Pushable type
\* and one of a type without an impl.
Values ==
    { [type |-> "&[u8]", slice |-> <<171, 205>>],
      [type |-> "Vec<u8>", vec |-> <<1, 2, 3, 4>>],
      [type |-> "i64", i64 |-> I64(FALSE, <<2>>)],
      [type |-> "PublicKey", key |-> "key"],
      [type |-> "String", string |-> "text"] }

\* No tokens are no expression: the closure is then called with one argument
\* and the code does not compile.
NoValue == [type |-> "()"]

ValuesOf(expression) == IF expression = <<>> THEN {NoValue} ELSE Values

\* push with an impl for Vec<u8> that returns the builder it was given.
push_DropsVec(builder, value) ==
    CASE value.type = "&[u8]" -> push_slice(builder, value.slice)
      [] value.type = "Vec<u8>" -> builder
      [] value.type = "i64" -> push_int(builder, value.i64)
      [] value.type = "PublicKey" -> push_key(builder, value.key)

\* push(builder, value): value.bitcoin_script_push(builder), by the impl
\* of the value's type.
push(builder, value) ==
    CASE value.type = "&[u8]" -> push_slice(builder, value.slice)
      [] value.type = "Vec<u8>" -> push_slice(builder, value.vec)
      [] value.type = "i64" -> push_int(builder, value.i64)
      [] value.type = "PublicKey" -> push_key(builder, value.key)

\* The escaped expressions of generated code, in the order they are
\* evaluated: a call's first argument before its second, a receiver before
\* the method's argument.
RECURSIVE Escaped(_)
Escaped(tks) ==
    IF tks = <<>> THEN <<>>
    ELSE LET first == tks[1]
         IN  (IF first.call = "closure"
              THEN Append(Escaped(first.builder), first.value)
              ELSE <<>>) \o Escaped(Tail(tks))

\* The Builder the calls `tks` evaluate to, the k-th escaped expression
\* evaluating to vals[k].  [builder, used]: the Builder and how many escaped
\* expressions were evaluated for it.
RECURSIVE Eval(_, _)
Eval(tks, vals) ==
    LET n == Len(tks)
        last == tks[n]
    IN  IF n = 1
        THEN IF last.call = "closure"
             THEN LET arg == Eval(last.builder, vals)
                  IN  [builder |-> push(arg.builder, vals[arg.used + 1]),
                       used |-> arg.used + 1]
             ELSE [builder |-> <<>>, used |-> 0]
        ELSE LET self == Eval(SubSeq(tks, 1, n - 1), vals)
             IN  [builder |->
                    CASE last.call = "push_opcode" ->
                           push_opcode(self.builder, OpcodeConstant(last.ident))
                      [] last.call = "push_slice" ->
                           push_slice(self.builder, last.slice)
                      [] last.call = "push_int" ->
                           push_int(self.builder, last.n)
                      [] last.call = "into_script" -> self.builder,
                  used |-> self.used]

\* The macro's expansion is compiled and run.  An escaped expression of a
\* type without a Pushable impl is a compile error.
Evaluate ==
    /\ status = "generated"
    /\ LET escaped == Escaped(expr)
       IN  \E vals \in [1..Len(escaped) -> Values \cup {NoValue}] :
             /\ \A k \in 1..Len(escaped) : vals[k] \in ValuesOf(escaped[k])
             /\ values' = vals
             /\ IF \A k \in 1..Len(escaped) : vals[k].type \in Pushable
                THEN /\ script' = Eval(expr, vals).builder
                     /\ status' = "evaluated"
                ELSE /\ script' = <<>>
                     /\ status' = "rejected"
    /\ UNCHANGED <<tokens, pos, items, syntax, diags, expr>>

Next ==
    \/ ParseIdent
    \/ ParseEscape
    \/ ParseData
    \/ ParseNegativeInt
    \/ ParseUnexpected
    \/ ParseReturn
    \/ Generate
    \/ Evaluate

Spec == Init /\ [][Next]_vars

---------------------------------------------------------------------------
(* parse as src/lib.rs has it, under the `script` macro: the same loop,     *)
(* with proc_macro_error's own emit_error!, which records the diagnostic    *)
(* and returns, so that each closure goes on with a placeholder.  Its nodes  *)
(* carry no span.  The macro's output is fixed (`(123)`), so the invocation  *)
(* ends when parse returns.                                                  *)

OP_NOP == 97

LibOpcode(op) == [node |-> "Opcode", opcode |-> op]
LibEscape(ts) == [node |-> "Escape", escape |-> ts]
LibBytes(bs) == [node |-> "Bytes", bytes |-> bs]
LibInt(n) == [node |-> "Int", int |-> n]

\* parse_int: 0 for a text that is no i64.
lib_parse_int(i, negative) ==
    LET parsed == ParseI64(tokens[i].chars)
        n == IF parsed.ok THEN parsed.val ELSE I64Zero
    IN  /\ diags' = IF parsed.ok THEN diags
                    ELSE Append(diags, Diag("InvalidNumberLiteral", SpanOf(i)))
        /\ IF negative /\ MulOverflows(n)
           THEN \/ /\ status' = "panicked"
                   /\ UNCHANGED syntax
                \/ /\ syntax' = Append(syntax, LibInt(MulMinusOne(n)))
                   /\ UNCHANGED status
           ELSE /\ syntax' = Append(syntax,
                       LibInt(IF negative THEN MulMinusOne(n) ELSE n))
                /\ UNCHANGED status

\* parse_bytes: no bytes for a text that is no hex.
lib_parse_bytes(i) ==
    LET text == tokens[i].chars
        bytes == HexDecode(SubSeq(text, 3, Len(text)))
    IN  /\ diags' = IF bytes.ok THEN diags
                    ELSE Append(diags, Diag("InvalidHexLiteral", SpanOf(i)))
        /\ syntax' = Append(syntax,
                        LibBytes(IF bytes.ok THEN bytes.val ELSE <<>>))
        /\ UNCHANGED status

LibParseIdent ==
    /\ LoopHasToken
    /\ tokens[pos + 1].kind = "Ident"
    /\ pos' = pos + 1
    /\ items' = Append(items, SpanOf(pos + 1))
    /\ LET token_str == tokens[pos + 1].text
       IN  IF token_str \in DOMAIN OPCODES
           THEN /\ syntax' = Append(syntax, LibOpcode(OPCODES[token_str]))
                /\ UNCHANGED diags
           ELSE /\ diags' = Append(diags, Diag("UnknownOpcode", SpanOf(pos + 1)))
                /\ syntax' = Append(syntax, LibOpcode(OP_NOP))
    /\ UNCHANGED <<tokens, status, expr, values, script>>

LibParseEscape ==
    /\ LoopHasToken
    /\ tokens[pos + 1] = Lt
    /\ items' = Append(items, SpanOf(pos + 1))
    /\ LET end == escape_end(pos + 1)
       IN  IF end = 0
           THEN /\ pos' = Len(tokens)
                /\ abort("UnterminatedEscape", SpanOf(pos + 1))
                /\ UNCHANGED syntax
           ELSE /\ pos' = end
                /\ syntax' = Append(syntax,
                                LibEscape(SubSeq(tokens, pos + 2, end - 1)))
                /\ UNCHANGED <<diags, status>>
    /\ UNCHANGED <<tokens, expr, values, script>>

LibParseData ==
    /\ LoopHasToken
    /\ tokens[pos + 1].kind = "Literal"
    /\ pos' = pos + 1
    /\ items' = Append(items, SpanOf(pos + 1))
    /\ IF StartsWith0x(tokens[pos + 1].chars)
       THEN lib_parse_bytes(pos + 1)
       ELSE lib_parse_int(pos + 1, FALSE)
    /\ UNCHANGED <<tokens, expr, values, script>>

LibParseNegativeInt ==
    /\ LoopHasToken
    /\ tokens[pos + 1] = Minus
    /\ items' = Append(items, SpanOf(pos + 1))
    /\ pos' = IF pos + 2 <= Len(tokens) THEN pos + 2 ELSE pos + 1
    /\ IF pos + 2 <= Len(tokens) /\ tokens[pos + 2].kind = "Literal"
       THEN lib_parse_int(pos + 2, TRUE)
       ELSE /\ diags' = Append(diags, Diag("MalformedNegation", SpanOf(pos + 1)))
            /\ syntax' = Append(syntax, LibInt(I64Zero))
            /\ UNCHANGED status
    /\ UNCHANGED <<tokens, expr, values, script>>

LibParseUnexpected ==
    /\ LoopHasToken
    /\ tokens[pos + 1].kind # "Ident"
    /\ tokens[pos + 1].kind # "Literal"
    /\ tokens[pos + 1] # Lt
    /\ tokens[pos + 1] # Minus
    /\ pos' = pos + 1
    /\ items' = Append(items, SpanOf(pos + 1))
    /\ abort("UnexpectedToken", SpanOf(pos + 1))
    /\ UNCHANGED <<tokens, syntax, expr, values, script>>

LibParseReturn ==
    /\ status = "parsing"
    /\ pos = Len(tokens)
    /\ status' = "parsed"
    /\ UNCHANGED <<tokens, pos, items, syntax, diags, expr, values, script>>

LibNext ==
    \/ LibParseIdent
    \/ LibParseEscape
    \/ LibParseData
    \/ LibParseNegativeInt
    \/ LibParseUnexpected
    \/ LibParseReturn

LibSpec == Init /\ [][LibNext]_vars

---------------------------------------------------------------------------
(* What the input says, read off the tokens alone.                         *)

Stopped == status \in {"panicked", "aborted"}
Generated == status \in {"generated", "evaluated", "rejected"}

KnownOpcode(t) ==
    t.kind = "Ident" /\ \E c \in 0..255 : OpcodeName(c) = t.text

DigitsOf(cs) == StripZeros([i \in 1..Len(cs) |-> DecVal(cs[i])])

\* A decimal literal whose value fits an i64.
IsDecimal(t) ==
    /\ t.kind = "Literal"
    /\ t.chars # <<>>
    /\ \A i \in 1..Len(t.chars) : IsDecChar(t.chars[i])
    /\ ~MagGreater(DigitsOf(t.chars), I64MaxMag)

DecimalValue(t) == I64(FALSE, DigitsOf(t.chars))

Negated(v) == IF v.mag = <<0>> THEN v ELSE I64(TRUE, v.mag)

\* `0x` and an even number of hex digits.
IsHex(t) ==
    /\ t.kind = "Literal"
    /\ StartsWith0x(t.chars)
    /\ (Len(t.chars) - 2) % 2 = 0
    /\ \A i \in 3..Len(t.chars) : HexVal(t.chars[i]) >= 0

HexBytes(t) ==
    [i \in 1..((Len(t.chars) - 2) \div 2) |->
        16 * HexVal(t.chars[2 * i + 1]) + HexVal(t.chars[2 * i + 2])]

\* Every token is an opcode name, a decimal or hex literal, or a `-` before a
\* decimal literal.
EscapeFreeWellFormed ==
    \A k \in 1..Len(tokens) :
        \/ KnownOpcode(tokens[k])
        \/ IsHex(tokens[k]) /\ (k > 1 => tokens[k - 1] # Minus)
        \/ IsDecimal(tokens[k])
        \/ tokens[k] = Minus /\ k < Len(tokens) /\ IsDecimal(tokens[k + 1])

\* In such an input an item starts at every token that does not follow a `-`.
ItemStart(k) == k = 1 \/ tokens[k - 1] # Minus

NumItems == Cardinality({k \in 1..Len(tokens) : ItemStart(k)})

NthStart(i) ==
    CHOOSE k \in 1..Len(tokens) :
        ItemStart(k) /\ Cardinality({j \in 1..k : ItemStart(j)}) = i

\* The call `c` is the push of the item that starts at token k.
CallPushesItem(c, k) ==
    LET t == tokens[k]
    IN  IF t.kind = "Ident"
        THEN c.call = "push_opcode" /\ c.ident = t.text
        ELSE IF t = Minus
        THEN c.call = "push_int" /\ c.n = Negated(DecimalValue(tokens[k + 1]))
        ELSE IF IsHex(t)
        THEN c.call = "push_slice" /\ c.slice = HexBytes(t)
        ELSE c.call = "push_int" /\ c.n = DecimalValue(t)

---------------------------------------------------------------------------
(* C1: for N >= 0 well-formed items without an escape, parse never stops   *)
(* with a diagnostic and generate(parse(tokens)) is Builder::new(), then    *)
(* the N pushes in source order, the i-th the push of the i-th item         *)
(* (push_opcode of the named opcode, push_slice of the decoded bytes,       *)
(* push_int of the value), then one into_script(), with no escape closure.  *)
C1_EscapeFreeChain ==
    EscapeFreeWellFormed =>
        /\ ~Stopped
        /\ diags = <<>>
        /\ Generated =>
            /\ Len(expr) = NumItems + 2
            /\ expr[1] = BuilderNew
            /\ expr[NumItems + 2] = IntoScript
            /\ \A i \in 1..NumItems : CallPushesItem(expr[i + 1], NthStart(i))

C1_Witness ==
    /\ EscapeFreeWellFormed
    /\ status = "generated"
    /\ NumItems = 3
    /\ \E i, j, k \in 1..Len(tokens) :
         tokens[i].kind = "Ident" /\ tokens[j] = Minus /\ IsHex(tokens[k])

C1_WitnessEmpty == tokens = <<>> /\ status = "generated"

---------------------------------------------------------------------------
(* Inputs of opcode names.                                                 *)
AllKnownOpcodes == \A k \in 1..Len(tokens) : KnownOpcode(tokens[k])

(* C9: an input made only of known opcode names parses, without any        *)
(* diagnostic, into as many nodes as it has identifiers, the i-th an Opcode *)
(* node of the opcode whose name in the 256-entry table is the i-th         *)
(* identifier; the empty input parses into the empty program.               *)
C9_OpcodesInOrder ==
    /\ Cardinality(DOMAIN OPCODES) = 256
    /\ AllKnownOpcodes =>
        /\ ~Stopped
        /\ diags = <<>>
        /\ Len(syntax) = pos
        /\ \A i \in 1..pos :
             /\ syntax[i].node = "Opcode"
             /\ OpcodeName(syntax[i].opcode) = tokens[i].text
        /\ status # "parsing" => pos = Len(tokens)

C9_Witness ==
    /\ AllKnownOpcodes
    /\ status = "parsed"
    /\ Len(tokens) >= 3
    /\ tokens[1] # tokens[2]

---------------------------------------------------------------------------
(* Generated expressions against the program they are generated from.     *)

EscapeNodes(upto) == {i \in 1..upto : syntax[i].node = "Escape"}

\* The call `c` is the push generated for the node `item` (no Escape).
CallPushesNode(c, item) ==
    CASE item.node = "Opcode" ->
           c.call = "push_opcode" /\ OpcodeConstant(c.ident) = item.opcode
      [] item.node = "Bytes" -> c.call = "push_slice" /\ c.slice = item.bytes
      [] item.node = "Int" -> c.call = "push_int" /\ c.n = item.int
      [] OTHER -> FALSE

\* `tks` is the expression of the nodes 1..upto: without an escape among
\* them Builder::new() and their pushes, else the closure call of the last
\* escape, given the expression of the nodes before it and the escape's
\* tokens, and the pushes of the nodes after it.
RECURSIVE Accumulated(_, _)
Accumulated(tks, upto) ==
    IF EscapeNodes(upto) = {}
    THEN /\ Len(tks) = upto + 1
         /\ tks[1] = BuilderNew
         /\ \A i \in 1..upto : CallPushesNode(tks[i + 1], syntax[i])
    ELSE LET e == CHOOSE i \in EscapeNodes(upto) :
                      \A j \in EscapeNodes(upto) : j <= i
         IN  /\ Len(tks) = upto - e + 1
             /\ tks[1].call = "closure"
             /\ tks[1].value = syntax[e].escape
             /\ Accumulated(tks[1].builder, e - 1)
             /\ \A i \in (e + 1)..upto :
                  CallPushesNode(tks[i - e + 1], syntax[i])

\* The push `p` made on the Builder is of the kind the node `item` asks for.
PushIsOfNode(p, item) ==
    CASE item.node = "Opcode" ->
           p.push = "push_opcode" /\ p.opcode = item.opcode
      [] item.node = "Bytes" -> p.push = "push_slice" /\ p.data = item.bytes
      [] item.node = "Int" -> p.push = "push_int" /\ p.int = item.int
      [] item.node = "Escape" ->
           p.push \in {"push_slice", "push_int", "push_key"}

(* C2: generate gives one closure call per Escape node; the closure's      *)
(* builder argument is the whole expression of the nodes before the escape  *)
(* (from Builder::new() on), its value argument is the escape's tokens      *)
(* unchanged, the pushes of the later nodes follow the closure call, and    *)
(* one into_script() ends the expression; evaluated, the pushes reach the   *)
(* Builder in source order, one per node.                                   *)
C2_EscapeChain ==
    (Generated /\ EscapeNodes(Len(syntax)) # {}) =>
        /\ expr[Len(expr)] = IntoScript
        /\ Accumulated(SubSeq(expr, 1, Len(expr) - 1), Len(syntax))
        /\ Len(Escaped(expr)) = Cardinality(EscapeNodes(Len(syntax)))
        /\ status = "evaluated" =>
            /\ Len(script) = Len(syntax)
            /\ \A i \in 1..Len(syntax) : PushIsOfNode(script[i], syntax[i])

C2_Witness ==
    /\ status = "evaluated"
    /\ \E e \in EscapeNodes(Len(syntax)) :
         /\ 1 < e
         /\ e < Len(syntax)
         /\ syntax[e].escape # <<>>

---------------------------------------------------------------------------
(* Scripts against the program and the values of its escapes.             *)

\* Which escape, counted from 1, the node i is.
EscapeRank(i) == Cardinality(EscapeNodes(i))

ExpectedPush(i) ==
    LET item == syntax[i]
        v == values[EscapeRank(i)]
    IN  CASE item.node = "Opcode" ->
               [push |-> "push_opcode", opcode |-> item.opcode]
          [] item.node = "Bytes" -> [push |-> "push_slice", data |-> item.bytes]
          [] item.node = "Int" -> [push |-> "push_int", int |-> item.int]
          [] item.node = "Escape" /\ v.type = "&[u8]" ->
               [push |-> "push_slice", data |-> v.slice]
          [] item.node = "Escape" /\ v.type = "Vec<u8>" ->
               [push |-> "push_slice", data |-> v.vec]
          [] item.node = "Escape" /\ v.type = "i64" ->
               [push |-> "push_int", int |-> v.i64]
          [] item.node = "Escape" /\ v.type = "PublicKey" ->
               [push |-> "push_key", key |-> v.key]

\* The program with each escape of an i64 or byte value replaced by the
\* Int or Bytes node of that value.
Literalised ==
    [i \in 1..Len(syntax) |->
        LET item == syntax[i]
            v == values[EscapeRank(i)]
        IN  IF item.node # "Escape" \/ v.type = "PublicKey" THEN item
            ELSE IF v.type = "i64" THEN IntNode(v.i64, item.span)
            ELSE IF v.type = "&[u8]" THEN BytesNode(v.slice, item.span)
            ELSE BytesNode(v.vec, item.span)]

\* The values of the escapes Literalised keeps.
KeyValues ==
    LET keys == {k \in 1..Len(values) : values[k].type = "PublicKey"}
    IN  [r \in 1..Cardinality(keys) |->
            values[CHOOSE k \in keys :
                       Cardinality({j \in keys : j <= k}) = r]]

(* C8: the closure makes exactly one push for the escape's value, chosen   *)
(* by the value's type: push_slice for a &[u8] or a Vec<u8>, push_int for   *)
(* an i64, push_key for a PublicKey; so the script is the one the program   *)
(* gives with every i64 or byte escape replaced by the literal of its       *)
(* value.                                                                   *)
C8_EscapeDispatch ==
    /\ status = "evaluated" =>
        /\ script = [i \in 1..Len(syntax) |-> ExpectedPush(i)]
        /\ script = Eval(generate(Literalised), KeyValues).builder
    /\ status = "rejected" =>
        \E k \in 1..Len(values) : values[k].type \notin Pushable

C8_Witness ==
    /\ status = "evaluated"
    /\ Len(values) = 2
    /\ values[1].type = "i64"
    /\ values[2].type = "Vec<u8>"
    /\ Len(syntax) = 8

---------------------------------------------------------------------------
(* The fatal diagnostics.                                                  *)

Fatal == {"UnterminatedEscape", "UnexpectedToken"}

Unexpected(t) == t.kind \notin {"Ident", "Literal"} /\ t # Lt /\ t # Minus

Unterminated(k) ==
    tokens[k] = Lt /\ \A j \in (k + 1)..Len(tokens) : tokens[j] # Gt

LastOf(s) == s[Len(s)]

(* C4: an unterminated escape or an unexpected token (one that is no       *)
(* identifier, literal, `<` or `-`; a `>` outside an escape is one) met by  *)
(* the loop aborts the parse there: its diagnostic is the last one, no      *)
(* program is returned and nothing is generated, and no token after it is   *)
(* taken (for an unterminated escape the input has been read to its end).   *)
C4_FatalAborts ==
    /\ \A i \in 1..Len(items) :
         LET k == items[i][1]
         IN  (Unexpected(tokens[k]) \/ Unterminated(k)) =>
                /\ i = Len(items)
                /\ status = "aborted"
                /\ diags # <<>>
                /\ LastOf(diags) =
                     Diag(IF Unexpected(tokens[k]) THEN "UnexpectedToken"
                          ELSE "UnterminatedEscape", SpanOf(k))
                /\ pos = IF Unexpected(tokens[k]) THEN k ELSE Len(tokens)
    /\ \A d \in 1..Len(diags) :
         diags[d].kind \in Fatal =>
            /\ d = Len(diags)
            /\ status = "aborted"
            /\ items # <<>> /\ LastOf(items) = diags[d].span
    /\ status = "aborted" => expr = NoExpr /\ script = <<>>

C4_Witness ==
    /\ status = "aborted"
    /\ LastOf(diags).kind = "UnexpectedToken"
    /\ syntax # <<>>
    /\ pos + 2 <= Len(tokens)
    /\ tokens[pos] = Gt

---------------------------------------------------------------------------
(* C6: an Escape node holds exactly the tokens between its `<` and the      *)
(* first `>` after it, in order, whatever they are (a `<` among them opens  *)
(* nothing); none of them is matched by the loop or gets a diagnostic; the  *)
(* node takes one place in the program and the loop goes on at the token    *)
(* after that `>`.                                                          *)

C6_EscapeCapture ==
    /\ Len(syntax) <= Len(items)
    /\ \A i \in 1..Len(syntax) :
         syntax[i].node = "Escape" =>
            LET k == items[i][1]
                end == CHOOSE j \in (k + 1)..Len(tokens) :
                           /\ tokens[j] = Gt
                           /\ \A m \in (k + 1)..(j - 1) : tokens[m] # Gt
            IN  /\ tokens[k] = Lt
                /\ \E j \in (k + 1)..Len(tokens) : tokens[j] = Gt
                /\ syntax[i].escape = SubSeq(tokens, k + 1, end - 1)
                /\ \A j \in 1..Len(items) : ~(k < items[j][1] /\ items[j][1] <= end)
                /\ \A d \in 1..Len(diags) :
                     ~(k <= diags[d].span[1] /\ diags[d].span[1] <= end)
                /\ IF i < Len(items) THEN items[i + 1] = SpanOf(end + 1)
                   ELSE pos = end

C6_Witness ==
    /\ status = "parsed"
    /\ \E i \in 1..Len(syntax) :
         /\ syntax[i].node = "Escape"
         /\ i < Len(syntax)
         /\ \E m \in 1..Len(syntax[i].escape) :
              syntax[i].escape[m] \in {Lt, Ident("A"), Group("(a > b)")}

---------------------------------------------------------------------------
(* The recoverable diagnostics.  The statements below speak of the item i   *)
(* the loop has matched, which starts at the token items[i][1], and of the  *)
(* node it has pushed, syntax[i].                                           *)

Recoverable ==
    {"UnknownOpcode", "InvalidHexLiteral", "InvalidNumberLiteral",
     "MalformedNegation"}

Reported(kind, k) ==
    \E d \in 1..Len(diags) : diags[d] = Diag(kind, SpanOf(k))

HasNode(i) == i <= Len(syntax)

IsIntNode(i, n) == HasNode(i) /\ syntax[i].node = "Int" /\ syntax[i].int = n

IsBytesNode(i, bs) ==
    HasNode(i) /\ syntax[i].node = "Bytes" /\ syntax[i].bytes = bs

IsOpcodeNode(i, op) ==
    HasNode(i) /\ syntax[i].node = "Opcode" /\ syntax[i].opcode = op

\* A literal that parse_data, or parse_negative_int, hands to parse_int.
NonHexLiteral(t) == t.kind = "Literal" /\ ~StartsWith0x(t.chars)

---------------------------------------------------------------------------
(* C3: an unknown identifier gets the UnknownOpcode diagnostic and an       *)
(* OP_NOP node in its place, and no recoverable diagnostic stops the scan:  *)
(* every further mistake of the input is reported by the same invocation.   *)
C3_RecoverableContinues ==
    /\ \A d \in 1..Len(diags) :
         diags[d].kind \in Recoverable => status # "panicked"
    /\ \A i \in 1..Len(items) :
         LET k == items[i][1]
         IN  (tokens[k].kind = "Ident" /\ ~KnownOpcode(tokens[k])) =>
                /\ Reported("UnknownOpcode", k)
                /\ IsOpcodeNode(i, OP_NOP)

---------------------------------------------------------------------------
(* C5: a `-` before a decimal literal gives the Int node of the negated     *)
(* value; a `-` that ends the input, or stands before a token that is no    *)
(* literal or before a 0x literal, gets the MalformedNegation diagnostic,   *)
(* does not stop the scan, and gives the node Int(0).                       *)
C5_Negation ==
    \A i \in 1..Len(items) :
        LET k == items[i][1]
        IN  tokens[k] = Minus =>
              IF k < Len(tokens) /\ NonHexLiteral(tokens[k + 1])
              THEN IsDecimal(tokens[k + 1]) =>
                     IsIntNode(i, Negated(DecimalValue(tokens[k + 1])))
              ELSE /\ Reported("MalformedNegation", k)
                   /\ status # "panicked"
                   /\ IsIntNode(i, I64Zero)

---------------------------------------------------------------------------
(* Bytes and Int nodes against the literals they come from.               *)

\* The item i has a diagnostic of its own.
ItemReported(i) ==
    \E d \in 1..Len(diags) :
        /\ items[i][1] <= diags[d].span[1]
        /\ i < Len(items) => diags[d].span[1] < items[i + 1][1]

NodeFromLiteral(i) ==
    LET k == items[i][1]
        t == tokens[k]
    IN  /\ syntax[i].node = "Bytes" => IsHex(t) /\ syntax[i].bytes = HexBytes(t)
        /\ syntax[i].node = "Int" =>
             \/ IsDecimal(t) /\ syntax[i].int = DecimalValue(t)
             \/ /\ t = Minus
                /\ k < Len(tokens)
                /\ IsDecimal(tokens[k + 1])
                /\ syntax[i].int = Negated(DecimalValue(tokens[k + 1]))

(* C7: a Bytes node is the decoding of the even number of hex digits of a   *)
(* 0x literal, an Int node is the value of a decimal literal, negated after *)
(* a `-`, and but for the placeholder of a reported mistake no Bytes or Int *)
(* node is anything else; a 0x literal with an odd number of digits or with *)
(* a character that is no hex digit gets the InvalidHexLiteral diagnostic   *)
(* and the node Bytes([]).                                                  *)
C7_LiteralNodes ==
    /\ \A i \in 1..Len(syntax) : ItemReported(i) \/ NodeFromLiteral(i)
    /\ \A i \in 1..Len(items) :
         LET t == tokens[items[i][1]]
         IN  (t.kind = "Literal" /\ StartsWith0x(t.chars) /\ ~IsHex(t)) =>
                /\ Reported("InvalidHexLiteral", items[i][1])
                /\ IsBytesNode(i, <<>>)

\* C7 without its placeholder: what holds of parse in src/parse.rs.
C7_NodesOnlyFromLiterals ==
    /\ \A i \in 1..Len(syntax) : ItemReported(i) \/ NodeFromLiteral(i)
    /\ \A i \in 1..Len(items) :
         LET t == tokens[items[i][1]]
         IN  (t.kind = "Literal" /\ StartsWith0x(t.chars) /\ ~IsHex(t)) =>
                Reported("InvalidHexLiteral", items[i][1])

---------------------------------------------------------------------------
(* Literals handed to parse_int.                                           *)

\* The literal the item i hands to parse_int, 0 when it hands none.
IntLiteralOf(i) ==
    LET k == items[i][1]
    IN  IF NonHexLiteral(tokens[k]) THEN k
        ELSE IF tokens[k] = Minus /\ k < Len(tokens)
                /\ tokens[k + 1].kind = "Literal"
                /\ ~StartsWith0x(tokens[k + 1].chars)
        THEN k + 1
        ELSE 0

IntNodesInRange ==
    \A i \in 1..Len(syntax) :
        syntax[i].node = "Int" => ~MagGreater(syntax[i].int.mag, I64MaxMag)

\* A panic without a diagnostic is the overflow of n * -1.
NegationOverflowed == status = "panicked" /\ diags = <<>>

(* C10: a literal without 0x that is digits of a value v <= 2^63 - 1 gives  *)
(* Int(v), Int(-v) after a `-`; any other such literal gets the             *)
(* InvalidNumberLiteral diagnostic and the node Int(0); n * -1 never        *)
(* overflows and every Int node is within -(2^63 - 1) .. 2^63 - 1.          *)
C10_IntLiterals ==
    /\ \A i \in 1..Len(items) :
         LET l == IntLiteralOf(i)
             v == DecimalValue(tokens[l])
         IN  l # 0 =>
               IF IsDecimal(tokens[l])
               THEN IsIntNode(i, IF l = items[i][1] THEN v ELSE Negated(v))
               ELSE /\ Reported("InvalidNumberLiteral", l)
                    /\ IsIntNode(i, I64Zero)
    /\ IntNodesInRange
    /\ ~NegationOverflowed

\* C10 without its placeholder: what holds of parse in src/parse.rs.
C10_ValuesAndRange ==
    /\ \A i \in 1..Len(items) :
         LET l == IntLiteralOf(i)
             v == DecimalValue(tokens[l])
         IN  l # 0 =>
               IF IsDecimal(tokens[l])
               THEN IsIntNode(i, IF l = items[i][1] THEN v ELSE Negated(v))
               ELSE Reported("InvalidNumberLiteral", l)
    /\ IntNodesInRange
    /\ ~NegationOverflowed

====
